---- MODULE Spec2Model ----
(***************************************************************************)
(* Model of the diagnostics ingestion core of cockpit-ros2-diagnostics:    *)
(* the history hook (hooks/useDiagHistory), the pause and history-step     *)
(* controls (app.tsx, HistorySelection.tsx), the connection manager        *)
(* (RosConnectionManager.tsx) and the transport client (roslib/Ros.ts,     *)
(* roslib/Topic.ts).                                                       *)
(*                                                                         *)
(* The page is single threaded: every handler below is one atomic action.  *)
(* A click is a discrete event, so React 18 (index.tsx uses createRoot)    *)
(* commits the state it sets and runs the resulting effects before the     *)
(* next event is handled; the actions include that commit.                 *)
(***************************************************************************)
EXTENDS Integers, Sequences, FiniteSets, TLC

VARIABLES
    diagHistory,        \* useDiagHistory: the rolling buffer, oldest first
    isPaused,           \* Application: pause state
    isPausedRef,        \* useDiagHistory: isPausedRef.current
    diagStatusDisplay,  \* Application: the displayed snapshot, or Null
    negIndex,           \* HistorySelection: -1 is the newest step
    now,                \* stamp of the last stored snapshot
    bridgeConnected,    \* Application: last value passed to onConnectionStatusChange
    props,              \* RosConnectionManager props and whether it is mounted
    sessions,           \* one record per run of the manager's effect
    sockets,            \* every transport (Impl) created so far
    timers,             \* pending setTimeout callbacks
    staleTimeoutId,     \* staleTimeoutId.current (0: names no pending timer)
    retryTimeoutId,     \* retryTimeoutId.current (0: names no pending timer)
    stored,             \* snapshots accepted since the buffer was last emptied
    selectedRawName,    \* Application: rawName of the selected entry, <<>> for null
    expandedRows,       \* DiagnosticsTreeTable: the rawNames of the expanded rows
    lastExpandedRawName, \* DiagnosticsTreeTable: the selection expanded last
    treeCall,           \* the last direct call of the tree builder: input and result
    topic,              \* one Topic on an open transport, driven directly: the
                        \* subscriptions created, the #subscriptions map, and which
                        \* callbacks the last message reached
    nsCall,             \* the last direct call of sanitizeNamespace: input, result
                        \* and the result of sanitizing the result
    ev                  \* the handler that ran last; afterStale: it ran right after
                        \* the stale-data timer fired

vars == <<diagHistory, isPaused, isPausedRef, diagStatusDisplay, negIndex, now,
          bridgeConnected, props, sessions, sockets, timers, staleTimeoutId,
          retryTimeoutId, stored, selectedRawName, expandedRows,
          lastExpandedRawName, treeCall, topic, nsCall, ev>>

tableVars == <<selectedRawName, expandedRows, lastExpandedRawName>>

histVars == <<diagHistory, isPaused, isPausedRef, diagStatusDisplay, negIndex, now,
              stored, tableVars>>

connVars == <<bridgeConnected, props, sessions, sockets, timers, staleTimeoutId,
              retryTimeoutId, treeCall, topic, nsCall>>

\* null and undefined
Null == [null |-> TRUE]

-----------------------------------------------------------------------------
(* Program constants and model bounds *)

HISTORY_SIZE == 30

\* stamps handed out in the history-only specification (HISTORY_SIZE + 2)
MaxStamp == 32

\* snapshots stored per run of the full specification
MaxMsgs == 2

\* runs of the connection manager's effect
MaxSessions == 2

\* transports created per run of the full specification
MaxSockets == 4

\* records in one status array handed to the tree builder
MaxRecords == 2

\* subscribe calls on the Topic that is driven directly
MaxSubscriptions == 3

\* characters of a namespace handed to sanitizeNamespace
MaxNamespaceLen == 3

\* the callbacks handed to Topic.subscribe and Topic.unsubscribe
Callbacks == {"f", "g"}

\* the props of RosConnectionManager
Namespaces == {"/a", "/b"}

\* useWebSocketUrl: null until the host is known, then ws://host:8765
NoUrl == ""

BridgeUrl == "ws://host:8765"

-----------------------------------------------------------------------------
(* Strings are sequences of one-character strings; the empty sequence is   *)
(* the empty string and, for message and hardware_id, also null:           *)
(* `message || ""` and `hardware_id || null` map both to one value.        *)

RECURSIVE SplitFrom(_, _, _, _)
SplitFrom(s, sep, i, cur) ==
    IF i > Len(s) THEN <<cur>>
    ELSE IF s[i] = sep THEN <<cur>> \o SplitFrom(s, sep, i + 1, <<>>)
    ELSE SplitFrom(s, sep, i + 1, Append(cur, s[i]))

\* String.prototype.split(sep) for a one-character separator
Split(s, sep) == SplitFrom(s, sep, 1, <<>>)

RECURSIVE JoinFrom(_, _, _)
JoinFrom(parts, sep, i) ==
    IF i > Len(parts) THEN <<>>
    ELSE IF i = Len(parts) THEN parts[i]
    ELSE parts[i] \o <<sep>> \o JoinFrom(parts, sep, i + 1)

\* Array.prototype.join(sep)
Join(parts, sep) == JoinFrom(parts, sep, 1)

-----------------------------------------------------------------------------
(* sanitizeNamespace *)

Digits == {"0", "1", "2", "3", "4", "5", "6", "7", "8", "9"}

Letters ==
    {"a", "b", "c", "d", "e", "f", "g", "h", "i", "j", "k", "l", "m", "n", "o", "p", "q",
     "r", "s", "t", "u", "v", "w", "x", "y", "z", "A", "B", "C", "D", "E", "F", "G", "H",
     "I", "J", "K", "L", "M", "N", "O", "P", "Q", "R", "S", "T", "U", "V", "W", "X", "Y",
     "Z"}

\* .replace(/[^a-zA-Z0-9_/]/g, "")
RemoveInvalid(s) == SelectSeq(s, LAMBDA c : c \in Letters \cup Digits \cup {"_", "/"})

\* .replace(/c+/g, "c") for a character c: every run of c becomes one c
RECURSIVE CollapseRuns(_, _)
CollapseRuns(s, c) ==
    IF Len(s) < 2 THEN s
    ELSE IF s[1] = c /\ s[2] = c THEN CollapseRuns(Tail(s), c)
    ELSE <<s[1]>> \o CollapseRuns(Tail(s), c)

\* .replace(/^\/|\/$/g, ""): one leading and one trailing slash are removed
TrimSlashes(s) ==
    LET s1 == IF s # <<>> /\ s[1] = "/" THEN Tail(s) ELSE s
    IN IF s1 # <<>> /\ s1[Len(s1)] = "/" THEN SubSeq(s1, 1, Len(s1) - 1) ELSE s1

\* .replace(/^\d+/, "")
RECURSIVE DropLeadingDigits(_)
DropLeadingDigits(s) ==
    IF s # <<>> /\ s[1] \in Digits THEN DropLeadingDigits(Tail(s)) ELSE s

sanitizeNamespace(namespace) ==
    LET sanitizedNamespace ==
            DropLeadingDigits(TrimSlashes(CollapseRuns(CollapseRuns(
                RemoveInvalid(namespace), "/"), "_")))
    IN IF sanitizedNamespace # <<>> THEN <<"/">> \o sanitizedNamespace
       ELSE sanitizedNamespace

-----------------------------------------------------------------------------
(* buildDiagnosticsTree and calculateOverallLevel *)

RECURSIVE FindName(_, _, _)
FindName(level, part, i) ==
    IF i > Len(level) THEN 0
    ELSE IF level[i].name = part THEN i
    ELSE FindName(level, part, i + 1)

\* a new entry starting with severity 0 (OK) instead of -1
NewEntrySeverityZero(parts, index) ==
    LET pieces == Split(parts[index], ":")
        baseName == pieces[1]
        suffix == IF Len(pieces) >= 2 THEN pieces[2] ELSE <<>>
        path == Split(Join(SubSeq(parts, 1, index), "/"), ":")[1]
    IN [name |-> IF index = Len(parts) /\ suffix # <<>> THEN suffix ELSE baseName,
        path |-> path,
        rawName |-> path,
        message |-> <<>>,
        severity_level |-> 0,
        hardware_id |-> <<>>,
        children |-> <<>>]

\* the entry created for a path segment that has no entry yet
NewEntry(parts, index) ==
    LET pieces == Split(parts[index], ":")
        baseName == pieces[1]
        suffix == IF Len(pieces) >= 2 THEN pieces[2] ELSE <<>>
        path == Split(Join(SubSeq(parts, 1, index), "/"), ":")[1]
    IN [name |-> IF index = Len(parts) /\ suffix # <<>> THEN suffix ELSE baseName,
        path |-> path,
        rawName |-> path,
        message |-> <<>>,
        severity_level |-> -1,
        hardware_id |-> <<>>,
        children |-> <<>>]

RECURSIVE InsertParts(_, _, _, _)
\* the walk leaving rawName as the entry was created with it (the path)
InsertPartsKeepsPath(currentLevel, parts, index, rec) ==
    IF index > Len(parts) THEN currentLevel
    ELSE IF parts[index] = <<>> THEN InsertParts(currentLevel, parts, index + 1, rec)
    ELSE LET found == FindName(currentLevel, parts[index], 1)
             level1 == IF found = 0
                       THEN Append(currentLevel, NewEntry(parts, index))
                       ELSE currentLevel
             k == IF found = 0 THEN Len(level1) ELSE found
             entry1 == IF index = Len(parts)
                       THEN [level1[k] EXCEPT !.message = rec.message,
                                              !.severity_level = rec.level,
                                              !.hardware_id = rec.hardware_id]
                       ELSE level1[k]
             entry2 == [entry1 EXCEPT !.children =
                            InsertParts(entry1.children, parts, index + 1, rec)]
         IN [level1 EXCEPT ![k] = entry2]

\* parts.forEach of one record, from position index on, on the level reached
InsertParts(currentLevel, parts, index, rec) ==
    IF index > Len(parts) THEN currentLevel
    ELSE IF parts[index] = <<>> THEN InsertParts(currentLevel, parts, index + 1, rec)
    ELSE LET found == FindName(currentLevel, parts[index], 1)
             level1 == IF found = 0
                       THEN Append(currentLevel, NewEntry(parts, index))
                       ELSE currentLevel
             k == IF found = 0 THEN Len(level1) ELSE found
             entry1 == IF index = Len(parts)
                       THEN [level1[k] EXCEPT !.message = rec.message,
                                              !.severity_level = rec.level,
                                              !.hardware_id = rec.hardware_id,
                                              !.rawName = rec.name]
                       ELSE level1[k]
             entry2 == [entry1 EXCEPT !.children =
                            InsertParts(entry1.children, parts, index + 1, rec)]
         IN [level1 EXCEPT ![k] = entry2]

RECURSIVE BuildFrom(_, _, _)
BuildFrom(root, diagnostics, i) ==
    IF i > Len(diagnostics) THEN root
    ELSE BuildFrom(InsertParts(root, Split(diagnostics[i].name, "/"), 1, diagnostics[i]),
                   diagnostics, i + 1)

buildDiagnosticsTree(diagnostics) == BuildFrom(<<>>, diagnostics, 1)

Max(a, b) == IF a > b THEN a ELSE b

Min(a, b) == IF a < b THEN a ELSE b

\* checkEntry without its descent into entry.children
RECURSIVE LevelOfForestTopOnly(_, _, _)
LevelOfForestTopOnly(entries, i, maxLevel) ==
    IF i > Len(entries) THEN maxLevel
    ELSE LevelOfForestTopOnly(entries, i + 1, Max(maxLevel, entries[i].severity_level))

\* checkEntry comparing the severity of entries without children only
RECURSIVE LevelOfForestLeavesOnly(_, _, _)
LevelOfForestLeavesOnly(entries, i, maxLevel) ==
    IF i > Len(entries) THEN maxLevel
    ELSE LevelOfForestLeavesOnly(entries, i + 1,
            IF entries[i].children = <<>>
            THEN Max(maxLevel, entries[i].severity_level)
            ELSE LevelOfForestLeavesOnly(entries[i].children, 1, maxLevel))

\* diagnostics.forEach(checkEntry) from position i on, with maxLevel so far
RECURSIVE LevelOfForest(_, _, _)
LevelOfForest(entries, i, maxLevel) ==
    IF i > Len(entries) THEN maxLevel
    ELSE LevelOfForest(entries, i + 1,
            LevelOfForest(entries[i].children, 1, Max(maxLevel, entries[i].severity_level)))

calculateOverallLevel(diagnostics) == LevelOfForest(diagnostics, 1, 0)

-----------------------------------------------------------------------------
(* hooks/useDiagHistory *)

\* Array.prototype.slice(-n)
SliceLast(s, n) == IF Len(s) <= n THEN s ELSE SubSeq(s, Len(s) - n + 1, Len(s))

\* updateDiagHistory keeping the first HISTORY_SIZE entries: slice(0, HISTORY_SIZE)
updateDiagHistoryKeepsOldest(prevItems, pausedRef, diagStatusLatest) ==
    IF ~pausedRef /\ diagStatusLatest # Null /\ Len(diagStatusLatest.diagnostics) > 0
    THEN LET updatedItems == Append(prevItems, diagStatusLatest)
         IN IF Len(updatedItems) > HISTORY_SIZE
            THEN SubSeq(updatedItems, 1, HISTORY_SIZE)
            ELSE updatedItems
    ELSE prevItems

\* updateDiagHistory without the test of diagnostics.length
updateDiagHistoryAnyForest(prevItems, pausedRef, diagStatusLatest) ==
    IF ~pausedRef /\ diagStatusLatest # Null
    THEN SliceLast(Append(prevItems, diagStatusLatest), HISTORY_SIZE)
    ELSE prevItems

\* the buffer after updateDiagHistory(diagStatusLatest) with isPausedRef.current = pausedRef
updateDiagHistory(prevItems, pausedRef, diagStatusLatest) ==
    IF ~pausedRef /\ diagStatusLatest # Null /\ Len(diagStatusLatest.diagnostics) > 0
    THEN LET updatedItems == Append(prevItems, diagStatusLatest)
         IN IF Len(updatedItems) > HISTORY_SIZE
            THEN SliceLast(updatedItems, HISTORY_SIZE)
            ELSE updatedItems
    ELSE prevItems

\* clearDiagHistory keeping the newest snapshot: prevItems.slice(-1)
clearDiagHistoryKeepsNewest(prevItems) == SliceLast(prevItems, 1)

\* the buffer after clearDiagHistory()
clearDiagHistory(prevItems) == <<>>

-----------------------------------------------------------------------------
(* HistorySelection: the effect on [diagHistory, setDiagStatusDisplay, isPaused] *)

\* the effect without its else branch: an empty buffer leaves the display alone
EffectDisplayNoReset(history, paused, display) ==
    IF ~paused /\ Len(history) > 0 THEN history[Len(history)] ELSE display

\* the effect showing the oldest entry: diagHistory[0]
EffectDisplayOldest(history, paused, display) ==
    IF ~paused
    THEN IF Len(history) > 0 THEN history[1] ELSE Null
    ELSE display

\* the effect without its test of isPaused: the display follows the buffer always
EffectDisplayIgnoresPause(history, paused, display) ==
    IF Len(history) > 0 THEN history[Len(history)] ELSE Null

EffectDisplay(history, paused, display) ==
    IF ~paused
    THEN IF Len(history) > 0 THEN history[Len(history)] ELSE Null
    ELSE display

EffectNegIndex(paused, neg) == IF ~paused THEN -1 ELSE neg

-----------------------------------------------------------------------------
(* DiagnosticsTreeTable and the selection it shares with DiagnosticsTable.  *)
(* A rawName is a string; <<>> stands for null and for the empty string,    *)
(* which the tests `selectedRawName ? ... : null` treat alike.              *)

\* Application: diagStatusDisplay?.diagnostics || []
DisplayedDiagnostics(display) == IF display = Null THEN <<>> ELSE display.diagnostics

\* findEntryByRawName: the first entry, depth first, with that rawName, or null
RECURSIVE findEntryByRawName(_, _)
findEntryByRawName(entries, rawName) ==
    IF entries = <<>> THEN Null
    ELSE IF Head(entries).rawName = rawName THEN Head(entries)
    ELSE LET foundInChildren == findEntryByRawName(Head(entries).children, rawName)
         IN IF foundInChildren # Null THEN foundInChildren
            ELSE findEntryByRawName(Tail(entries), rawName)

\* findPathToRawName: the rawNames from a root to the entry, or <<>> for null
RECURSIVE findPathToRawName(_, _, _)
findPathToRawName(entries, rawName, path) ==
    IF entries = <<>> THEN <<>>
    ELSE LET newPath == Append(path, Head(entries).rawName)
         IN IF Head(entries).rawName = rawName THEN newPath
            ELSE LET childPath == findPathToRawName(Head(entries).children, rawName, newPath)
                 IN IF childPath # <<>> THEN childPath
                    ELSE findPathToRawName(Tail(entries), rawName, path)

\* const selectedEntry = selectedRawName ? findEntryByRawName(...) : null
selectedEntry(display, selected) ==
    IF selected # <<>> THEN findEntryByRawName(DisplayedDiagnostics(display), selected)
    ELSE Null

\* <Drawer isExpanded={!!selectedEntry}>
DrawerIsExpanded(display, selected) == selectedEntry(display, selected) # Null

\* toggleRowExpansion(diagRawName)
toggleRowExpansion(prevExpanded, diagRawName) ==
    IF diagRawName \in prevExpanded
    THEN prevExpanded \ {diagRawName}
    ELSE prevExpanded \cup {diagRawName}

\* the auto-expansion effect without its test against lastExpandedRawName
AutoExpandRowsAlways(diagnostics, selected, expanded, last) ==
    IF selected # <<>>
    THEN LET path == findPathToRawName(diagnostics, selected, <<>>)
         IN IF Len(path) > 1
            THEN expanded \cup {path[k] : k \in 1..(Len(path) - 1)}
            ELSE expanded
    ELSE expanded

\* the auto-expansion effect on [selectedRawName, diagnostics, lastExpandedRawName]:
\* expandedRows after it
AutoExpandRows(diagnostics, selected, expanded, last) ==
    IF selected # <<>> /\ selected # last
    THEN LET path == findPathToRawName(diagnostics, selected, <<>>)
         IN IF Len(path) > 1
            THEN expanded \cup {path[k] : k \in 1..(Len(path) - 1)}
            ELSE expanded
    ELSE expanded

\* lastExpandedRawName after the auto-expansion effect
AutoExpandLast(selected, last) ==
    IF selected # <<>> /\ selected # last THEN selected ELSE last

\* the table's state after a render with this selection, these expanded rows
\* and this displayed snapshot, and the effect that follows the render
TableEffect(selected, expanded, display) ==
    /\ selectedRawName' = selected
    /\ expandedRows' = AutoExpandRows(DisplayedDiagnostics(display), selected, expanded,
                                      lastExpandedRawName)
    /\ lastExpandedRawName' = AutoExpandLast(selected, lastExpandedRawName)

\* renderRows with every row expanded: all entries of the forest
RECURSIVE AllEntries(_)
AllEntries(entries) ==
    IF entries = <<>> THEN <<>>
    ELSE <<Head(entries)>> \o AllEntries(Head(entries).children)
         \o AllEntries(Tail(entries))

\* renderRows: the rows that are not hidden, in display order
RECURSIVE VisibleRows(_, _)
VisibleRows(entries, expanded) ==
    IF entries = <<>> THEN <<>>
    ELSE <<Head(entries)>>
         \o (IF Head(entries).rawName \in expanded
             THEN VisibleRows(Head(entries).children, expanded)
             ELSE <<>>)
         \o VisibleRows(Tail(entries), expanded)

-----------------------------------------------------------------------------
(* Inbound messages *)

\* diagnostic records of a status array
RecOk == [name |-> <<"/", "a">>, message |-> <<"o">>, level |-> 0, hardware_id |-> <<>>]

\* a message whose status field is not an array
MsgNotArray == [isArray |-> FALSE, status |-> <<>>]

MsgEmpty == [isArray |-> TRUE, status |-> <<>>]

MsgOk == [isArray |-> TRUE, status |-> <<RecOk>>]

\* the messages the bridge delivers in the full specification
Messages == {MsgNotArray, MsgEmpty, MsgOk}

\* the DiagnosticsStatus the subscription callback builds from a status array
DiagStatus(status, timestamp) ==
    LET diagnosticsTree == buildDiagnosticsTree(status)
    IN [timestamp |-> timestamp,
        level |-> calculateOverallLevel(diagnosticsTree),
        diagnostics |-> diagnosticsTree]

\* arguments of direct calls of updateDiagHistory
UpdateInputs == {Null, DiagStatus(<<>>, now + 1), DiagStatus(<<RecOk>>, now + 1)}

-----------------------------------------------------------------------------
(* Initial state: the page has rendered, the bridge URL is not resolved yet *)

Ev(h, arg) == [h |-> h, arg |-> arg, afterStale |-> ev.h = "stale"]

Init ==
    /\ diagHistory = <<>>
    /\ isPaused = FALSE
    /\ isPausedRef = FALSE
    /\ diagStatusDisplay = Null
    /\ negIndex = -1
    /\ now = 0
    /\ bridgeConnected = FALSE
    /\ props = [namespace |-> "/a", url |-> NoUrl, mounted |-> TRUE]
    /\ sessions = <<>>
    /\ sockets = <<>>
    /\ timers = {}
    /\ staleTimeoutId = 0
    /\ retryTimeoutId = 0
    /\ stored = 0
    /\ selectedRawName = <<>>
    /\ expandedRows = {}
    /\ lastExpandedRawName = <<>>
    /\ treeCall = [diagnostics |-> <<>>, root |-> <<>>, overallLevel |-> 0]
    /\ nsCall = [namespace |-> <<>>, sanitizedNamespace |-> <<>>, again |-> <<>>]
    /\ topic = [created |-> <<>>, subscriptions |-> [cb \in Callbacks |-> 0],
                cancelled |-> {}, invoked |-> {}]
    /\ ev = [h |-> "init", arg |-> "", afterStale |-> FALSE]

-----------------------------------------------------------------------------
(* History and display: the state after a handler changed the buffer, with *)
(* the re-render and the HistorySelection effect that follow it            *)

\* a snapshot the claims call accepted: not paused, not null, forest not empty
Accepted(d) == ~isPaused /\ d # Null /\ Len(d.diagnostics) > 0

SetHistory(history, accepted) ==
    /\ diagHistory' = history
    /\ diagStatusDisplay' = EffectDisplay(history, isPaused, diagStatusDisplay)
    /\ negIndex' = EffectNegIndex(isPaused, negIndex)
    /\ now' = IF accepted THEN now + 1 ELSE now
    /\ stored' = IF history = <<>> THEN 0 ELSE IF accepted THEN stored + 1 ELSE stored
    /\ TableEffect(selectedRawName, expandedRows,
                   EffectDisplay(history, isPaused, diagStatusDisplay))
    /\ UNCHANGED <<isPaused, isPausedRef>>

\* onDiagnosticsUpdate(d)
OnDiagnosticsUpdate(d) ==
    SetHistory(updateDiagHistory(diagHistory, isPausedRef, d), Accepted(d))

\* onClearHistory() guarded by the pause flag, as updateDiagHistory is
OnClearHistoryUnlessPaused ==
    SetHistory(IF isPausedRef THEN diagHistory ELSE clearDiagHistory(diagHistory), FALSE)

\* onClearHistory()
OnClearHistory == SetHistory(clearDiagHistory(diagHistory), FALSE)

-----------------------------------------------------------------------------
(* User actions *)

\* the button clearing the history in both directions
PauseButtonClearsAlways ==
    LET history == clearDiagHistory(diagHistory)
        paused == ~isPaused
    IN /\ diagHistory' = history
       /\ isPaused' = paused
       /\ isPausedRef' = paused
       /\ diagStatusDisplay' = EffectDisplay(history, paused, diagStatusDisplay)
       /\ TableEffect(selectedRawName, expandedRows,
                      EffectDisplay(history, paused, diagStatusDisplay))
       /\ negIndex' = EffectNegIndex(paused, negIndex)
       /\ stored' = 0
       /\ ev' = Ev(IF isPaused THEN "resume" ELSE "pause", "")
       /\ UNCHANGED <<now, connVars>>

\* the button without its call of clearDiagHistory
PauseButtonKeepsOnResume ==
    LET paused == ~isPaused
    IN /\ isPaused' = paused
       /\ isPausedRef' = paused
       /\ diagStatusDisplay' = EffectDisplay(diagHistory, paused, diagStatusDisplay)
       /\ TableEffect(selectedRawName, expandedRows,
                      EffectDisplay(diagHistory, paused, diagStatusDisplay))
       /\ negIndex' = EffectNegIndex(paused, negIndex)
       /\ ev' = Ev(IF isPaused THEN "resume" ELSE "pause", "")
       /\ UNCHANGED <<diagHistory, stored, now, connVars>>

\* Application: the Pause / Resume button
PauseButton ==
    LET history == IF isPaused THEN clearDiagHistory(diagHistory) ELSE diagHistory
        paused == ~isPaused
    IN /\ diagHistory' = history
       /\ isPaused' = paused
       /\ isPausedRef' = paused
       /\ diagStatusDisplay' = EffectDisplay(history, paused, diagStatusDisplay)
       /\ TableEffect(selectedRawName, expandedRows,
                      EffectDisplay(history, paused, diagStatusDisplay))
       /\ negIndex' = EffectNegIndex(paused, negIndex)
       /\ stored' = IF history = <<>> THEN 0 ELSE stored
       /\ ev' = Ev(IF isPaused THEN "resume" ELSE "pause",
                   IF history # diagHistory THEN "cleared" ELSE "")
       /\ UNCHANGED <<now, connVars>>

\* the click with updateDiagHistory still reading the pause value of the last render
StepClickStalePause(index) ==
    /\ index \in 1..Len(diagHistory)
    /\ diagStatusDisplay' = diagHistory[index]
    /\ TableEffect(selectedRawName, expandedRows, diagHistory[index])
    /\ isPaused' = TRUE
    /\ negIndex' = (index - 1) - Len(diagHistory)
    /\ ev' = Ev("step", "")
    /\ UNCHANGED <<diagHistory, isPausedRef, now, stored, connVars>>

\* the click with setNegIndex(index + 1 - diagHistory.length)
StepClickNextIndex(index) ==
    /\ index \in 1..Len(diagHistory)
    /\ diagStatusDisplay' = diagHistory[index]
    /\ TableEffect(selectedRawName, expandedRows, diagHistory[index])
    /\ isPaused' = TRUE
    /\ isPausedRef' = TRUE
    /\ negIndex' = index - Len(diagHistory)
    /\ ev' = Ev("step", "")
    /\ UNCHANGED <<diagHistory, now, stored, connVars>>

\* HistorySelection: click on the history step at position index (1 is the oldest)
StepClick(index) ==
    /\ index \in 1..Len(diagHistory)
    /\ diagStatusDisplay' = diagHistory[index]
    /\ TableEffect(selectedRawName, expandedRows, diagHistory[index])
    /\ isPaused' = TRUE
    /\ isPausedRef' = TRUE
    /\ negIndex' = (index - 1) - Len(diagHistory)
    /\ ev' = Ev("step", "")
    /\ UNCHANGED <<diagHistory, now, stored, connVars>>

-----------------------------------------------------------------------------
(* Timers: setTimeout / clearTimeout.  Browser timer ids are never reused,  *)
(* so a ref that names a timer that fired or was cleared behaves like 0;    *)
(* the refs are kept in that normal form.                                   *)

FreshId(ts) == CHOOSE n \in 1..(Cardinality(ts) + 1) :
                   /\ \A t \in ts : t.id # n
                   /\ \A m \in 1..(n - 1) : \E t \in ts : t.id = m

ClearTimeout(ts, id) == {t \in ts : t.id # id}

Timer(ts, kind, s) == [id |-> FreshId(ts), kind |-> kind, sess |-> s]

RetryTimers(s) == {t \in timers : t.kind = "retry" /\ t.sess = s}

StaleTimers(s) == {t \in timers : t.kind = "stale" /\ t.sess = s}

-----------------------------------------------------------------------------
(* roslib: Ros, Topic and the transport behind them *)

\* new Impl(url): one WebSocket, connecting; listeners are registered later
NewImpl(s, url) ==
    [sess |-> s, url |-> url, readyState |-> "connecting", listeners |-> FALSE,
     subscribed |-> FALSE, handle |-> "none", callbacks |-> <<>>]

\* Impl.close(): closes the socket and invalidates its subscriptions.  The handle
\* of an invalidated subscription cancels nothing: it is kept as "none".
ImplClose(impl) ==
    [impl EXCEPT !.readyState = IF @ \in {"connecting", "open"} THEN "closing" ELSE @,
                 !.subscribed = FALSE,
                 !.handle = "none",
                 !.callbacks = <<>>]

\* Ros.connect(url): a new transport replaces #rosImpl
RosConnect(socks, s, url) == Append(socks, NewImpl(s, url))

\* new Ros({ url })
RosConstructor(socks, s, url) == IF url # NoUrl THEN RosConnect(socks, s, url) ELSE socks

\* Ros.on(event, fn) for the three handlers of connectToWebSocket
RosOn(socks, rosImpl) ==
    IF rosImpl = 0 THEN socks ELSE [socks EXCEPT ![rosImpl].listeners = TRUE]

\* Ros.close()
RosClose(socks, rosImpl) ==
    IF rosImpl = 0 THEN socks ELSE [socks EXCEPT ![rosImpl] = ImplClose(@)]

\* new ROSLIB.Topic({ ros, name, messageType }) of session s; the template
\* literal of the name is kept as its two parts
DiagnosticsTopic(s) ==
    [name |-> <<sessions[s].namespace, "/diagnostics_agg">>,
     messageType |-> "diagnostic_msgs/DiagnosticArray"]

\* Topic.subscribe(callback): createSubscription on the current transport; the
\* transport's callbacks field lists the topic of each callback registered on it
TopicSubscribe(socks, rosImpl) ==
    IF rosImpl = 0 THEN socks
    ELSE [socks EXCEPT ![rosImpl].subscribed = TRUE,
                       ![rosImpl].handle = "pending",
                       ![rosImpl].callbacks =
                           Append(@, DiagnosticsTopic(socks[rosImpl].sess))]

\* Topic.unsubscribe(): cancels the subscriptions recorded in #subscriptions
TopicUnsubscribe(socks, s) ==
    [i \in DOMAIN socks |->
        IF socks[i].sess = s /\ socks[i].handle = "registered"
        THEN [socks[i] EXCEPT !.subscribed = FALSE, !.handle = "none",
                              !.callbacks = <<>>]
        ELSE socks[i]]

Live(i) == sockets[i].readyState \in {"connecting", "open"}

SocketsOf(s) == {i \in DOMAIN sockets : sockets[i].sess = s}

\* the transport of session s that was created last
LatestSocket(s) == CHOOSE i \in SocketsOf(s) : \A j \in SocketsOf(s) : j <= i

-----------------------------------------------------------------------------
(* RosConnectionManager *)

\* the session whose effect has run and has not been cleaned up, or 0
ActiveSession ==
    IF Len(sessions) > 0 /\ sessions[Len(sessions)].retryConnection
    THEN Len(sessions) ELSE 0

\* connectToWebSocket: clearTimeout(staleTimeoutId.current); clearTimeout(retryTimeoutId.current)
ConnectTimers(ts) == ClearTimeout(ClearTimeout(ts, staleTimeoutId), retryTimeoutId)

\* connectToWebSocket: ros.connect(url) and the three ros.on(...)
ConnectSockets(socks, s, url) == RosOn(RosConnect(socks, s, url), Len(socks) + 1)

\* the close handler scheduling its retry without clearing the previous one
CloseHandlerTimersNoClear(ts, s) ==
    LET kept == ClearTimeout(ts, staleTimeoutId)
    IN IF sessions[s].retryConnection
       THEN kept \cup {Timer(kept, "retry", s)}
       ELSE kept

\* the close handler without clearTimeout(staleTimeoutId.current)
CloseHandlerTimersKeepsStale(ts, s) ==
    LET cleared == ClearTimeout(ts, retryTimeoutId)
    IN IF sessions[s].retryConnection
       THEN cleared \cup {Timer(cleared, "retry", s)}
       ELSE cleared

\* the close handler: both timers cleared, then the retry timer of a session not stopped
CloseHandlerTimers(ts, s) ==
    LET cleared == ClearTimeout(ClearTimeout(ts, staleTimeoutId), retryTimeoutId)
    IN IF sessions[s].retryConnection
       THEN cleared \cup {Timer(cleared, "retry", s)}
       ELSE cleared

\* retryTimeoutId.current after the close handler
CloseHandlerRetryId(ts, s) ==
    LET cleared == ClearTimeout(ClearTimeout(ts, staleTimeoutId), retryTimeoutId)
    IN IF sessions[s].retryConnection THEN FreshId(cleared) ELSE 0

\* the effect's cleanup, on the transports
CleanupSockets(socks, c) ==
    IF c = 0 THEN socks ELSE RosClose(TopicUnsubscribe(socks, c), sessions[c].rosImpl)

\* the cleanup leaving retryConnection set
CleanupSessionsKeepsRetry(c) ==
    IF c = 0 THEN sessions ELSE [sessions EXCEPT ![c].rosImpl = 0]

\* the effect's cleanup, on the session's closure
CleanupSessions(c) ==
    IF c = 0 THEN sessions
    ELSE [sessions EXCEPT ![c].retryConnection = FALSE, ![c].rosImpl = 0]

\* the cleanup cancelling the stale-data timer only
CleanupTimersStaleOnly(ts, c) ==
    IF c = 0 THEN ts ELSE ClearTimeout(ts, staleTimeoutId)

\* the effect's cleanup, on the timers
CleanupTimers(ts, c) ==
    IF c = 0 THEN ts ELSE ClearTimeout(ClearTimeout(ts, staleTimeoutId), retryTimeoutId)

PropsSet == [namespace : Namespaces, url : {NoUrl, BridgeUrl}, mounted : BOOLEAN]

\* A change of namespace or url, a mount or an unmount: React runs the cleanup
\* of the previous effect and then the effect for the new props.
PropsChange(p) ==
    LET c == ActiveSession
        start == p.mounted /\ p.url # NoUrl
        s == Len(sessions) + 1
        socks1 == CleanupSockets(sockets, c)
        socks2 == RosConstructor(socks1, s, p.url)
    IN /\ p \in PropsSet
       /\ p # props
       /\ props.url # NoUrl => p.url = props.url
       /\ start => Len(sessions) < MaxSessions /\ Len(sockets) + 2 <= MaxSockets
       /\ props' = p
       /\ sockets' = IF start THEN ConnectSockets(socks2, s, p.url) ELSE socks1
       /\ sessions' = IF start
                      THEN Append(CleanupSessions(c),
                                  [namespace |-> p.namespace, url |-> p.url,
                                   retryConnection |-> TRUE, rosImpl |-> Len(socks2) + 1])
                      ELSE CleanupSessions(c)
       /\ timers' = IF start THEN ConnectTimers(CleanupTimers(timers, c))
                    ELSE CleanupTimers(timers, c)
       /\ staleTimeoutId' = IF start \/ c # 0 THEN 0 ELSE staleTimeoutId
       /\ retryTimeoutId' = IF start \/ c # 0 THEN 0 ELSE retryTimeoutId
       /\ ev' = Ev("props", IF start THEN "start" ELSE IF c # 0 THEN "stop" ELSE "")
       /\ UNCHANGED <<histVars, bridgeConnected, treeCall, topic, nsCall>>

\* the connection handler without its call of onClearHistory()
SocketOpensKeepsHistory(i) ==
    LET s == sockets[i].sess
        socks1 == [sockets EXCEPT ![i].readyState = "open"]
    IN /\ i \in DOMAIN sockets
       /\ sockets[i].readyState = "connecting"
       /\ IF sockets[i].listeners
          THEN /\ bridgeConnected' = TRUE
               /\ sockets' = TopicSubscribe(socks1, sessions[s].rosImpl)
               /\ ev' = Ev("connection", "")
               /\ UNCHANGED histVars
          ELSE /\ sockets' = socks1
               /\ ev' = Ev("opened", "")
               /\ UNCHANGED <<histVars, bridgeConnected>>
       /\ UNCHANGED <<props, sessions, timers, staleTimeoutId, retryTimeoutId, treeCall, topic, nsCall>>

\* the transport's socket opens: the connection event
SocketOpens(i) ==
    LET s == sockets[i].sess
        socks1 == [sockets EXCEPT ![i].readyState = "open"]
    IN /\ i \in DOMAIN sockets
       /\ sockets[i].readyState = "connecting"
       /\ IF sockets[i].listeners
          THEN /\ OnClearHistory
               /\ bridgeConnected' = TRUE
               /\ sockets' = TopicSubscribe(socks1, sessions[s].rosImpl)
               /\ ev' = Ev("connection", "")
          ELSE /\ sockets' = socks1
               /\ ev' = Ev("opened", "")
               /\ UNCHANGED <<histVars, bridgeConnected>>
       /\ UNCHANGED <<props, sessions, timers, staleTimeoutId, retryTimeoutId, treeCall, topic, nsCall>>

\* the promise of createSubscription resolves: the handle is recorded
SubscriptionRegistered(i) ==
    /\ i \in DOMAIN sockets
    /\ sockets[i].handle = "pending"
    /\ sockets' = [sockets EXCEPT ![i].handle = "registered"]
    /\ ev' = Ev("registered", "")
    /\ UNCHANGED <<histVars, bridgeConnected, props, sessions, timers, staleTimeoutId,
                   retryTimeoutId, treeCall, topic, nsCall>>

\* the error handler giving up: it disables the retry as the cleanup does
SocketErrorStopsSession(i) ==
    LET s == sockets[i].sess
        socks1 == [sockets EXCEPT ![i] = ImplClose(@)]
    IN /\ i \in DOMAIN sockets
       /\ Live(i)
       /\ IF sockets[i].listeners
          THEN /\ sockets' = RosClose(socks1, sessions[s].rosImpl)
               /\ sessions' = [sessions EXCEPT ![s].rosImpl = 0,
                                               ![s].retryConnection = FALSE]
               /\ ev' = Ev("error", "")
          ELSE /\ sockets' = socks1
               /\ ev' = Ev("failed", "")
               /\ UNCHANGED sessions
       /\ UNCHANGED <<histVars, bridgeConnected, props, timers, staleTimeoutId,
                      retryTimeoutId, treeCall, topic, nsCall>>

\* the socket fails: the error event; the browser closes the socket afterwards
SocketError(i) ==
    LET s == sockets[i].sess
        socks1 == [sockets EXCEPT ![i] = ImplClose(@)]
    IN /\ i \in DOMAIN sockets
       /\ Live(i)
       /\ IF sockets[i].listeners
          THEN /\ sockets' = RosClose(socks1, sessions[s].rosImpl)
               /\ sessions' = [sessions EXCEPT ![s].rosImpl = 0]
               /\ ev' = Ev("error", "")
          ELSE /\ sockets' = socks1
               /\ ev' = Ev("failed", "")
               /\ UNCHANGED sessions
       /\ UNCHANGED <<histVars, bridgeConnected, props, timers, staleTimeoutId,
                      retryTimeoutId, treeCall, topic, nsCall>>

\* what the close handler of session s does, given the transports after the event
CloseEvent(i, socks1, arg) ==
    LET s == sockets[i].sess
    IN IF sockets[i].listeners
       THEN /\ bridgeConnected' = FALSE
            /\ OnClearHistory
            /\ timers' = CloseHandlerTimers(timers, s)
            /\ retryTimeoutId' = CloseHandlerRetryId(timers, s)
            /\ staleTimeoutId' = 0
            /\ sockets' = socks1
            /\ ev' = Ev("close", arg)
            /\ UNCHANGED <<props, sessions, treeCall, topic, nsCall>>
       ELSE /\ sockets' = socks1
            /\ ev' = Ev("closed", arg)
            /\ UNCHANGED <<histVars, bridgeConnected, props, sessions, timers,
                           staleTimeoutId, retryTimeoutId, treeCall, topic, nsCall>>

\* the socket closes (by the peer, after an error, or after close()): the close event
SocketClose(i) ==
    /\ i \in DOMAIN sockets
    /\ sockets[i].readyState \in {"open", "closing"}
    /\ CloseEvent(i, [sockets EXCEPT ![i].readyState = "closed",
                                     ![i].subscribed = FALSE,
                                     ![i].handle = "none",
                                     ![i].callbacks = <<>>], "")

\* a further close event of the same transport, before the session has reconnected
SocketCloseAgain(i) ==
    /\ i \in DOMAIN sockets
    /\ sockets[i].readyState = "closed"
    /\ sockets[i].listeners
    /\ i = LatestSocket(sockets[i].sess)
    /\ CloseEvent(i, sockets, "again")

MessageKind(m) ==
    IF ~m.isArray THEN "notArray"
    ELSE IF Len(buildDiagnosticsTree(m.status)) = 0 THEN "empty" ELSE "valid"

\* the callback clearing the history when the status field is not an array
SocketMessageClearsMalformed(i, m) ==
    LET s == sockets[i].sess
        cleared == ClearTimeout(timers, staleTimeoutId)
    IN /\ i \in DOMAIN sockets
       /\ sockets[i].readyState = "open"
       /\ sockets[i].subscribed
       /\ IF m.isArray
          THEN /\ Accepted(DiagStatus(m.status, now + 1)) => now < MaxMsgs
               /\ OnDiagnosticsUpdate(DiagStatus(m.status, now + 1))
          ELSE OnClearHistory
       /\ timers' = cleared \cup {Timer(cleared, "stale", s)}
       /\ staleTimeoutId' = FreshId(cleared)
       /\ ev' = Ev("message", MessageKind(m))
       /\ UNCHANGED <<bridgeConnected, props, sessions, sockets, retryTimeoutId, treeCall, topic, nsCall>>

\* the callback arming the stale-data timer only after a status array
SocketMessageArmsOnArray(i, m) ==
    LET s == sockets[i].sess
        cleared == ClearTimeout(timers, staleTimeoutId)
    IN /\ i \in DOMAIN sockets
       /\ sockets[i].readyState = "open"
       /\ sockets[i].subscribed
       /\ IF m.isArray
          THEN /\ Accepted(DiagStatus(m.status, now + 1)) => now < MaxMsgs
               /\ OnDiagnosticsUpdate(DiagStatus(m.status, now + 1))
               /\ timers' = cleared \cup {Timer(cleared, "stale", s)}
               /\ staleTimeoutId' = FreshId(cleared)
          ELSE /\ UNCHANGED histVars
               /\ UNCHANGED <<timers, staleTimeoutId>>
       /\ ev' = Ev("message", MessageKind(m))
       /\ UNCHANGED <<bridgeConnected, props, sessions, sockets, retryTimeoutId, treeCall, topic, nsCall>>

\* the subscription callback of the session that subscribed on transport i
SocketMessage(i, m) ==
    LET s == sockets[i].sess
        cleared == ClearTimeout(timers, staleTimeoutId)
    IN /\ i \in DOMAIN sockets
       /\ sockets[i].readyState = "open"
       /\ sockets[i].subscribed
       /\ IF m.isArray
          THEN /\ Accepted(DiagStatus(m.status, now + 1)) => now < MaxMsgs
               /\ OnDiagnosticsUpdate(DiagStatus(m.status, now + 1))
          ELSE UNCHANGED histVars
       /\ timers' = cleared \cup {Timer(cleared, "stale", s)}
       /\ staleTimeoutId' = FreshId(cleared)
       /\ ev' = Ev("message", MessageKind(m))
       /\ UNCHANGED <<bridgeConnected, props, sessions, sockets, retryTimeoutId, treeCall, topic, nsCall>>

\* the stale callback treating staleness as a transport fault: it reports
\* connected=false as the close handler does
StaleTimerFiresAsFault(t) ==
    /\ t \in timers
    /\ t.kind = "stale"
    /\ timers' = timers \ {t}
    /\ staleTimeoutId' = IF staleTimeoutId = t.id THEN 0 ELSE staleTimeoutId
    /\ OnClearHistory
    /\ bridgeConnected' = FALSE
    /\ ev' = Ev("stale", "")
    /\ UNCHANGED <<props, sessions, sockets, retryTimeoutId, treeCall, topic, nsCall>>

\* the stale-data timer fires
StaleTimerFires(t) ==
    /\ t \in timers
    /\ t.kind = "stale"
    /\ timers' = timers \ {t}
    /\ staleTimeoutId' = IF staleTimeoutId = t.id THEN 0 ELSE staleTimeoutId
    /\ OnClearHistory
    /\ ev' = Ev("stale", "")
    /\ UNCHANGED <<bridgeConnected, props, sessions, sockets, retryTimeoutId, treeCall, topic, nsCall>>

\* the retry timer fires: connectToWebSocket of the session that armed it
RetryTimerFires(t) ==
    LET s == t.sess
        ts1 == timers \ {t}
    IN /\ t \in timers
       /\ t.kind = "retry"
       /\ Len(sockets) < MaxSockets
       /\ timers' = ConnectTimers(ts1)
       /\ staleTimeoutId' = 0
       /\ retryTimeoutId' = 0
       /\ sockets' = ConnectSockets(sockets, s, sessions[s].url)
       /\ sessions' = [sessions EXCEPT ![s].rosImpl = Len(sockets) + 1]
       /\ ev' = Ev("retry", "")
       /\ UNCHANGED <<histVars, bridgeConnected, props, treeCall, topic, nsCall>>

Next ==
    \/ \E p \in PropsSet : PropsChange(p)
    \/ \E i \in 1..MaxSockets : SocketOpens(i)
    \/ \E i \in 1..MaxSockets : SubscriptionRegistered(i)
    \/ \E i \in 1..MaxSockets : SocketError(i)
    \/ \E i \in 1..MaxSockets : SocketClose(i)
    \/ \E i \in 1..MaxSockets : SocketCloseAgain(i)
    \/ \E i \in 1..MaxSockets, m \in Messages : SocketMessage(i, m)
    \/ \E t \in timers : StaleTimerFires(t)
    \/ \E t \in timers : RetryTimerFires(t)
    \/ PauseButton
    \/ \E index \in 1..HISTORY_SIZE : StepClick(index)

Spec == Init /\ [][Next]_vars

-----------------------------------------------------------------------------
(* The history hook driven directly *)

InputKind(d) ==
    IF d = Null THEN "null" ELSE IF Len(d.diagnostics) = 0 THEN "empty" ELSE "valid"

UpdateCall(d) ==
    /\ Accepted(d) => now < MaxStamp
    /\ OnDiagnosticsUpdate(d)
    /\ ev' = Ev("update", InputKind(d))
    /\ UNCHANGED connVars

ClearCall ==
    /\ OnClearHistory
    /\ ev' = Ev("clear", "")
    /\ UNCHANGED connVars

NextHistory ==
    \/ \E d \in UpdateInputs : UpdateCall(d)
    \/ ClearCall
    \/ PauseButton
    \/ \E index \in 1..HISTORY_SIZE : StepClick(index)

SpecHistory == Init /\ [][NextHistory]_vars

-----------------------------------------------------------------------------
(* The tree builder driven directly, as the subscription callback drives it  *)
(* for one status array                                                      *)

\* DiagnosticsTable: the entries without children, depth first
RECURSIVE collectLeafNodes(_)
collectLeafNodes(entries) ==
    IF entries = <<>> THEN <<>>
    ELSE (IF Len(Head(entries).children) = 0
          THEN <<Head(entries)>>
          ELSE collectLeafNodes(Head(entries).children))
         \o collectLeafNodes(Tail(entries))

\* levelFilter reading a warning as an error too
levelFilterFromWarning(variant, level) ==
    IF variant = "error" THEN level >= 1 ELSE level = 1

\* DiagnosticsTable: errors are level >= 2, warnings level == 1
levelFilter(variant, level) ==
    IF variant = "error" THEN level >= 2 ELSE level = 1

\* DiagnosticsTable: the rows of the table of this variant
filteredDiagnostics(diagnostics, variant) ==
    SelectSeq(collectLeafNodes(diagnostics),
              LAMBDA d : levelFilter(variant, d.severity_level))

\* diagnostic names: a, a/b, /a/b, a/b/, a//b, a/c, a/b:c, x:y/z, x:y/w, x:y/z/w
TreeNames ==
    {<<"a">>,
     <<"a", "/", "b">>,
     <<"/", "a", "/", "b">>,
     <<"a", "/", "b", "/">>,
     <<"a", "/", "/", "b">>,
     <<"a", "/", "c">>,
     <<"a", "/", "b", ":", "c">>,
     <<"x", ":", "y", "/", "z">>,
     <<"x", ":", "y", "/", "w">>,
     <<"x", ":", "y", "/", "z", "/", "w">>}

\* level as the callback passes it on: -1 stands for a record without level
TreeLevels == {-1, 0, 1}

\* message and hardware_id of a record
TreeTexts == {<<<<"x">>, <<>>>>, <<<<"y">>, <<"h">>>>}

\* {name: "/robot/battery", message: "OK", level: 0}
RecBattery ==
    [name |-> <<"/", "r", "o", "b", "o", "t", "/", "b", "a", "t", "t", "e", "r", "y">>,
     message |-> <<"O", "K">>, level |-> 0, hardware_id |-> <<>>]

\* {name: "/robot/battery/cell1", message: "Low", level: 1}
RecCell1 ==
    [name |-> <<"/", "r", "o", "b", "o", "t", "/", "b", "a", "t", "t", "e", "r", "y",
                "/", "c", "e", "l", "l", "1">>,
     message |-> <<"L", "o", "w">>, level |-> 1, hardware_id |-> <<>>]

TreeRecords ==
    {[name |-> n, message |-> t[1], level |-> l, hardware_id |-> t[2]] :
        n \in TreeNames, l \in TreeLevels, t \in TreeTexts}
    \cup {RecBattery, RecCell1}

\* the status arrays of at most MaxRecords records
TreeInputs == UNION {[1..k -> TreeRecords] : k \in 0..MaxRecords}

\* buildDiagnosticsTree(diagnostics) and calculateOverallLevel of its result.
\* Both are pure: a behaviour makes one call.
BuildCall(diagnostics) ==
    LET root == buildDiagnosticsTree(diagnostics)
    IN /\ ev.h = "init"
       /\ treeCall' = [diagnostics |-> diagnostics, root |-> root,
                       overallLevel |-> calculateOverallLevel(root)]
       /\ ev' = Ev("build", "")
       /\ UNCHANGED <<histVars, bridgeConnected, props, sessions, sockets, timers,
                      staleTimeoutId, retryTimeoutId, topic, nsCall>>

NextTree ==
    \E diagnostics \in (IF ev.h = "init" THEN TreeInputs ELSE {}) : BuildCall(diagnostics)

SpecTree == Init /\ [][NextTree]_vars

-----------------------------------------------------------------------------
(* roslib/Topic driven directly on a transport that stays open.            *)
(* topic.created: the subscriptions createSubscription has made, in call   *)
(* order (callback, whether its promise has resolved, whether it still     *)
(* delivers); topic.subscriptions: the #subscriptions map, callback to     *)
(* position in topic.created, 0 for no entry; topic.cancelled: the         *)
(* subscriptions an unsubscribe call was meant to cancel; topic.invoked:   *)
(* the subscriptions whose callback the last message reached.              *)

\* unsubscribe() called without a callback
NoCallback == ""

HistUnchanged == UNCHANGED <<histVars, bridgeConnected, props, sessions, sockets, timers,
                             staleTimeoutId, retryTimeoutId, treeCall, nsCall>>

\* Topic.subscribe(callback): createSubscription is called, its promise is pending
Subscribe(callback) ==
    /\ Len(topic.created) < MaxSubscriptions
    /\ topic' = [topic EXCEPT !.created =
                     Append(@, [callback |-> callback, resolved |-> FALSE, active |-> TRUE])]
    /\ ev' = Ev("subscribe", callback)
    /\ HistUnchanged

\* the promise of subscription n resolves: #subscriptions.set(callback, subscription)
SubscriptionRecorded(n) ==
    /\ n \in DOMAIN topic.created
    /\ ~topic.created[n].resolved
    /\ topic' = [topic EXCEPT !.created[n].resolved = TRUE,
                              !.subscriptions[topic.created[n].callback] = n]
    /\ ev' = Ev("recorded", topic.created[n].callback)
    /\ HistUnchanged

\* Topic.unsubscribe(callback) and Topic.unsubscribe()
Unsubscribe(callback) ==
    LET named == {topic.subscriptions[cb] :
                     cb \in (IF callback = NoCallback THEN Callbacks ELSE {callback})} \ {0}
        meant == {n \in DOMAIN topic.created :
                     callback = NoCallback \/ topic.created[n].callback = callback}
    IN /\ topic' = [topic EXCEPT
              !.created = [n \in DOMAIN topic.created |->
                              IF n \in named
                              THEN [topic.created[n] EXCEPT !.active = FALSE]
                              ELSE topic.created[n]],
              !.subscriptions = [cb \in Callbacks |->
                              IF callback = NoCallback \/ cb = callback
                              THEN 0 ELSE topic.subscriptions[cb]],
              !.cancelled = @ \cup meant]
       /\ ev' = Ev("unsubscribe", callback)
       /\ HistUnchanged

\* a message on the topic: the transport invokes the callback of every
\* subscription that has not been cancelled through its handle
Deliver ==
    /\ topic.created # <<>>
    /\ topic' = [topic EXCEPT !.invoked =
                     {n \in DOMAIN topic.created : topic.created[n].active}]
    /\ ev' = Ev("deliver", "")
    /\ HistUnchanged

NextTopic ==
    \/ \E callback \in Callbacks : Subscribe(callback)
    \/ \E n \in 1..MaxSubscriptions : SubscriptionRecorded(n)
    \/ \E callback \in Callbacks \cup {NoCallback} : Unsubscribe(callback)
    \/ Deliver

SpecTopic == Init /\ [][NextTopic]_vars

-----------------------------------------------------------------------------
(* Selection and expansion: the tree table and the error / warning tables   *)
(* used while snapshots arrive, the history is cleared and the display is   *)
(* paused or stepped.                                                       *)

\* snapshots stored per run of this specification
MaxShown == 2

\* {name: "a/b/c", level: 2} and {name: "a/d", level: 1}
RecError ==
    [name |-> <<"a", "/", "b", "/", "c">>, message |-> <<"e">>, level |-> 2,
     hardware_id |-> <<>>]

RecWarning ==
    [name |-> <<"a", "/", "d">>, message |-> <<"w">>, level |-> 1, hardware_id |-> <<>>]

\* the snapshots delivered: one with a/b/c only, one with a/d only
TableUpdates == {DiagStatus(<<RecError>>, now + 1), DiagStatus(<<RecWarning>>, now + 1)}

SeqToSet(s) == {s[k] : k \in 1..Len(s)}

\* what a click in a table leaves alone
DataUnchanged == UNCHANGED <<diagHistory, isPaused, isPausedRef, diagStatusDisplay,
                             negIndex, now, stored, connVars>>

\* DiagnosticsTreeTable: click on the row of entry diag
RowClick(diag) ==
    /\ diag \in SeqToSet(VisibleRows(DisplayedDiagnostics(diagStatusDisplay), expandedRows))
    /\ TableEffect(diag.rawName, toggleRowExpansion(expandedRows, diag.rawName),
                   diagStatusDisplay)
    /\ ev' = Ev("rowClick", "")
    /\ DataUnchanged

\* DiagnosticsTreeTable: the expand / collapse control of the row of entry diag
ToggleRow(diag) ==
    /\ diag \in SeqToSet(VisibleRows(DisplayedDiagnostics(diagStatusDisplay), expandedRows))
    /\ Len(diag.children) > 0
    /\ TableEffect(selectedRawName, toggleRowExpansion(expandedRows, diag.rawName),
                   diagStatusDisplay)
    /\ ev' = Ev("toggle", "")
    /\ DataUnchanged

\* DiagnosticsTable (errors: level >= 2, warnings: level = 1): click on a row
TableRowClick(diag) ==
    /\ diag \in SeqToSet(collectLeafNodes(DisplayedDiagnostics(diagStatusDisplay)))
    /\ diag.severity_level >= 1
    /\ TableEffect(diag.rawName, expandedRows, diagStatusDisplay)
    /\ ev' = Ev("tableClick", "")
    /\ DataUnchanged

\* DiagnosticsTreeTable: the close button of the open drawer
CloseDrawer ==
    /\ DrawerIsExpanded(diagStatusDisplay, selectedRawName)
    /\ TableEffect(<<>>, expandedRows, diagStatusDisplay)
    /\ ev' = Ev("closeDrawer", "")
    /\ DataUnchanged

\* a snapshot delivered to updateDiagHistory
TableUpdate(d) ==
    /\ now < MaxShown
    /\ UpdateCall(d)

\* the entries of the displayed snapshot
Shown == SeqToSet(AllEntries(DisplayedDiagnostics(diagStatusDisplay)))

NextTable ==
    \/ \E d \in TableUpdates : TableUpdate(d)
    \/ ClearCall
    \/ PauseButton
    \/ \E index \in 1..MaxShown : StepClick(index)
    \/ \E diag \in Shown : RowClick(diag)
    \/ \E diag \in Shown : ToggleRow(diag)
    \/ \E diag \in Shown : TableRowClick(diag)
    \/ CloseDrawer

SpecTable == Init /\ [][NextTable]_vars

-----------------------------------------------------------------------------
(* The builder, the snapshot level and the error / warning tables for       *)
(* records of every severity, with and without records below them           *)

\* diagnostic names: a, a/b, a/c
SeverityNames == {<<"a">>, <<"a", "/", "b">>, <<"a", "/", "c">>}

\* OK, WARN, ERROR, STALE
SeverityLevels == {0, 1, 2, 3}

SeverityRecords ==
    {[name |-> n, message |-> <<"m">>, level |-> l, hardware_id |-> <<>>] :
        n \in SeverityNames, l \in SeverityLevels}

\* the status arrays of at most MaxRecords records
SeverityInputs == UNION {[1..k -> SeverityRecords] : k \in 0..MaxRecords}

NextSeverity ==
    \E diagnostics \in (IF ev.h = "init" THEN SeverityInputs ELSE {}) :
        BuildCall(diagnostics)

SpecSeverity == Init /\ [][NextSeverity]_vars

-----------------------------------------------------------------------------
(* sanitizeNamespace driven directly, as useNamespace calls it with the     *)
(* namespace or serial number read from robot.yaml                          *)

\* a letter, a digit, the underscore, the slash and a character that is removed
NamespaceChars == {"a", "1", "_", "/", "-"}

\* the strings of at most MaxNamespaceLen of these characters
NamespaceInputs == UNION {[1..k -> NamespaceChars] : k \in 0..MaxNamespaceLen}

\* sanitizeNamespace(namespace), and sanitizeNamespace of its result.
\* The function is pure: a behaviour makes one call.
SanitizeCall(namespace) ==
    /\ ev.h = "init"
    /\ nsCall' = [namespace |-> namespace,
                  sanitizedNamespace |-> sanitizeNamespace(namespace),
                  again |-> sanitizeNamespace(sanitizeNamespace(namespace))]
    /\ ev' = Ev("sanitize", "")
    /\ UNCHANGED <<histVars, bridgeConnected, props, sessions, sockets, timers,
                   staleTimeoutId, retryTimeoutId, treeCall, topic>>

NextNamespace ==
    \E namespace \in (IF ev.h = "init" THEN NamespaceInputs ELSE {}) :
        SanitizeCall(namespace)

SpecNamespace == Init /\ [][NextNamespace]_vars

-----------------------------------------------------------------------------
(* Properties *)

\* C1: the buffer never holds more than HISTORY_SIZE snapshots; after stored
\* accepted updates since it was last emptied it holds the last
\* min(stored, HISTORY_SIZE) of them, in arrival order, oldest first.
HistoryHoldsLastN ==
    /\ Len(diagHistory) <= HISTORY_SIZE
    /\ Len(diagHistory) = Min(stored, HISTORY_SIZE)
    /\ \A i \in 1..Len(diagHistory) :
           diagHistory[i].timestamp = now - Len(diagHistory) + i

HistoryEvicted ==
    /\ stored > HISTORY_SIZE
    /\ Len(diagHistory) = HISTORY_SIZE
    /\ diagHistory[1].timestamp = stored - HISTORY_SIZE + 1

\* C2: a message handled while pause is set leaves the buffer unchanged, whatever
\* it carries and however pause was set.
PausedUpdateIsNoOp ==
    [][(isPaused /\ ev'.h = "message") => diagHistory' = diagHistory]_vars

PausedValidMessage ==
    /\ ev.h = "message"
    /\ ev.arg = "valid"
    /\ isPaused
    /\ Len(diagHistory) > 0
    /\ negIndex = -Len(diagHistory)

\* C3 as stated: every toggle of pause leaves the buffer unchanged.
ToggleKeepsHistory ==
    [][ev'.h \in {"pause", "resume", "step"} => diagHistory' = diagHistory]_vars

\* C3 amended: the Pause button and a click on a history step leave the buffer
\* unchanged; the Resume button empties it.
PauseKeepsResumeClears ==
    [][/\ ev'.h \in {"pause", "step"} => diagHistory' = diagHistory
       /\ ev'.h = "resume" => diagHistory' = <<>>]_vars

PausedWithHistory ==
    /\ ev.h = "pause"
    /\ isPaused
    /\ Len(diagHistory) > 0

\* C4: after the connection handler, the close handler, the stale-data timer
\* and the Resume button the buffer is empty, paused or not.
ClearEmptiesBuffer ==
    ev.h \in {"connection", "close", "stale", "resume"} => diagHistory = <<>>

StaleClearedWhilePaused ==
    /\ ev.h = "stale"
    /\ isPaused
    /\ diagHistory = <<>>
    /\ diagStatusDisplay # Null

\* C5: updateDiagHistory called with null or with an empty forest leaves the
\* buffer unchanged, also when not paused.
EmptyUpdateIsNoOp ==
    [][(ev'.h = "update" /\ ev'.arg \in {"null", "empty"})
          => diagHistory' = diagHistory]_vars

EmptyUpdateWhileRunning ==
    /\ ev.h = "update"
    /\ ev.arg = "empty"
    /\ ~isPaused
    /\ Len(diagHistory) > 0

\* C6 as stated: at most one transport is connecting or open and at most one
\* subscription is live, both of the active session; no transport of a stopped
\* session is connecting or open.
OneLiveTransport ==
    /\ Cardinality({i \in DOMAIN sockets : Live(i)}) <= 1
    /\ Cardinality({i \in DOMAIN sockets : sockets[i].subscribed}) <= 1
    /\ \A i \in DOMAIN sockets :
           Live(i) \/ sockets[i].subscribed => sockets[i].sess = ActiveSession

\* C7: each session has at most one retry timer pending, every pending retry
\* timer is the one retryTimeoutId names, and while a single session has run,
\* its close events, however many, leave exactly one retry timer pending.
OneRetryTimerPending ==
    /\ \A s \in DOMAIN sessions : Cardinality(RetryTimers(s)) <= 1
    /\ \A t \in timers : t.kind = "retry" => t.id = retryTimeoutId
    /\ (/\ Len(sessions) = 1
        /\ sessions[1].retryConnection
        /\ sockets[LatestSocket(1)].readyState = "closed")
           => Cardinality(RetryTimers(1)) = 1

CloseBurstOneTimer ==
    /\ ev.h = "close"
    /\ ev.arg = "again"
    /\ Len(sessions) = 1
    /\ sessions[1].retryConnection
    /\ Cardinality(RetryTimers(1)) = 1

\* C8 as stated: a session that is not stopped and whose transport has closed
\* has its reconnect pending, whatever events of other sessions are delivered.
RetryNeverLost ==
    \A s \in DOMAIN sessions :
        (sessions[s].retryConnection /\ sockets[LatestSocket(s)].readyState = "closed")
            => RetryTimers(s) # {}

\* C9: once a session is stopped none of its timers is pending and it creates
\* no further transport.
StoppedSessionStaysStopped ==
    [][\A s \in DOMAIN sessions' :
          ~sessions'[s].retryConnection =>
              /\ \A t \in timers' : t.sess # s
              /\ (s \in DOMAIN sessions /\ ~sessions[s].retryConnection)
                    => \A i \in DOMAIN sockets' :
                           sockets'[i].sess = s => i \in DOMAIN sockets]_vars

StopCloseHandled ==
    /\ ev.h = "close"
    /\ Len(sessions) = 1
    /\ ~sessions[1].retryConnection
    /\ sockets[LatestSocket(1)].readyState = "closed"
    /\ timers = {}

\* C10 as stated: after the stale-data timer fired the buffer is empty and
\* nothing is displayed, paused or not.
StaleClearsDisplay ==
    ev.h = "stale" => diagHistory = <<>> /\ diagStatusDisplay = Null

\* C10 amended: the stale-data timer empties the buffer in every state; it
\* empties the display when not paused and leaves it unchanged when paused.
StaleClearsUnlessPinned ==
    [][ev'.h = "stale" =>
          /\ diagHistory' = <<>>
          /\ diagStatusDisplay' = IF isPaused THEN diagStatusDisplay ELSE Null]_vars

StaleClearedDisplay ==
    /\ ev.h = "stale"
    /\ ~isPaused
    /\ now > 0
    /\ diagStatusDisplay = Null

\* C11: the stale-data timer firing leaves every transport and subscription,
\* the sessions, the connected indicator and the retry timers as they were.
StaleKeepsConnection ==
    [][ev'.h = "stale" =>
          /\ sockets' = sockets
          /\ sessions' = sessions
          /\ bridgeConnected' = bridgeConnected
          /\ retryTimeoutId' = retryTimeoutId
          /\ {t \in timers' : t.kind = "retry"} = {t \in timers : t.kind = "retry"}]_vars

StaleWhileConnected ==
    /\ ev.h = "stale"
    /\ bridgeConnected
    /\ \E i \in DOMAIN sockets : sockets[i].readyState = "open" /\ sockets[i].subscribed

\* C12: a valid message handled while not paused is appended to the buffer as its
\* newest entry, is displayed, and leaves a stale-data timer pending; when it is
\* the first event after the stale-data timer fired it is the only entry.
ValidMessageResumesHistory ==
    [][(ev'.h = "message" /\ ev'.arg = "valid" /\ ~isPaused) =>
          /\ Len(diagHistory') = Len(diagHistory) + 1
          /\ SubSeq(diagHistory', 1, Len(diagHistory)) = diagHistory
          /\ diagHistory'[Len(diagHistory')].timestamp = now'
          /\ diagStatusDisplay' = diagHistory'[Len(diagHistory')]
          /\ \E t \in timers' : t.kind = "stale" /\ t.id = staleTimeoutId'
          /\ ev.h = "stale" => Len(diagHistory') = 1]_vars

ResumedAfterStale ==
    /\ ev.h = "message"
    /\ ev.arg = "valid"
    /\ ev.afterStale
    /\ now = 2
    /\ Len(diagHistory) = 1
    /\ diagHistory[1].timestamp = 2
    /\ \E t \in timers : t.kind = "stale" /\ t.id = staleTimeoutId

\* C13: a message whose status field is not an array leaves the buffer, the
\* displayed snapshot, the connected indicator, every transport and session
\* and the retry timers unchanged.
MalformedMessageDropped ==
    [][(ev'.h = "message" /\ ev'.arg = "notArray") =>
          /\ diagHistory' = diagHistory
          /\ diagStatusDisplay' = diagStatusDisplay
          /\ bridgeConnected' = bridgeConnected
          /\ sockets' = sockets
          /\ sessions' = sessions
          /\ retryTimeoutId' = retryTimeoutId
          /\ {t \in timers' : t.kind = "retry"} = {t \in timers : t.kind = "retry"}]_vars

MalformedAfterSnapshot ==
    /\ ev.h = "message"
    /\ ev.arg = "notArray"
    /\ ~isPaused
    /\ Len(diagHistory) > 0
    /\ bridgeConnected

BatteryForest(root) ==
    /\ Len(root) = 1
    /\ root[1].name = <<"r", "o", "b", "o", "t">>
    /\ root[1].severity_level = -1
    /\ root[1].message = <<>>
    /\ Len(root[1].children) = 1
    /\ LET battery == root[1].children[1]
       IN /\ battery.name = <<"b", "a", "t", "t", "e", "r", "y">>
          /\ battery.severity_level = 0
          /\ battery.message = <<"O", "K">>
          /\ Len(battery.children) = 1
          /\ battery.children[1].name = <<"c", "e", "l", "l", "1">>
          /\ battery.children[1].severity_level = 1
          /\ battery.children[1].message = <<"L", "o", "w">>
          /\ battery.children[1].children = <<>>

\* C15: the records /robot/battery (OK, 0) and /robot/battery/cell1 (Low, 1), in
\* either order, give the forest robot (synthetic, -1, no message) -> battery
\* (0, OK) -> cell1 (1, Low), the same forest for both orders, with level 1.
BatteryScenario ==
    treeCall.diagnostics \in {<<RecBattery, RecCell1>>, <<RecCell1, RecBattery>>} =>
        /\ BatteryForest(treeCall.root)
        /\ treeCall.overallLevel = 1
        /\ treeCall.root = buildDiagnosticsTree(<<RecBattery, RecCell1>>)
        /\ treeCall.root = buildDiagnosticsTree(<<RecCell1, RecBattery>>)

BatteryReversed ==
    /\ ev.h = "build"
    /\ treeCall.diagnostics = <<RecCell1, RecBattery>>
    /\ Len(treeCall.root) = 1
    /\ treeCall.overallLevel = 1

\* the call was made with the single record named a/b:c
ColonRecordAlone ==
    /\ ev.h = "build"
    /\ Len(treeCall.diagnostics) = 1
    /\ treeCall.diagnostics[1].name = <<"a", "/", "b", ":", "c">>

\* the forest a -> (one leaf displayed as c with path a/b)
ColonForest(root) ==
    /\ Len(root) = 1
    /\ root[1].name = <<"a">>
    /\ Len(root[1].children) = 1
    /\ root[1].children[1].name = <<"c">>
    /\ root[1].children[1].path = <<"a", "/", "b">>
    /\ root[1].children[1].children = <<>>

\* C16 as stated: the single record a/b:c gives a two-level forest whose leaf is
\* displayed as c and has a/b both as path and as rawName.
ColonLeafRawNameIsPath ==
    ColonRecordAlone =>
        /\ ColonForest(treeCall.root)
        /\ treeCall.root[1].children[1].rawName = <<"a", "/", "b">>

\* C16 amended: the leaf is displayed as c and has the path a/b; its rawName is
\* the record's full name a/b:c.
ColonLeafKeepsFullName ==
    ColonRecordAlone =>
        /\ ColonForest(treeCall.root)
        /\ treeCall.root[1].children[1].rawName = <<"a", "/", "b", ":", "c">>

ColonLeafBuilt ==
    /\ ColonRecordAlone
    /\ treeCall.diagnostics[1].level = 1
    /\ treeCall.root[1].children[1].severity_level = 1
    /\ treeCall.root[1].children[1].name = <<"c">>

\* every node of a forest, depth first
RECURSIVE AllNodes(_)
AllNodes(entries) ==
    IF entries = <<>> THEN <<>>
    ELSE <<Head(entries)>> \o AllNodes(Head(entries).children) \o AllNodes(Tail(entries))

\* the position of the last record of diagnostics that has the name of record i
LastOfName(diagnostics, i) ==
    CHOOSE j \in 1..Len(diagnostics) :
        /\ diagnostics[j].name = diagnostics[i].name
        /\ \A k \in (j + 1)..Len(diagnostics) : diagnostics[k].name # diagnostics[i].name

\* C17 as stated: when several records have the same full name, the forest has
\* exactly one node with that name as rawName, and the node carries the message,
\* severity_level and hardware_id of the last of these records.
DuplicateNameLastWins ==
    LET d == treeCall.diagnostics
        flat == AllNodes(treeCall.root)
    IN \A i \in 1..Len(d) :
           (\E j \in 1..Len(d) : j # i /\ d[j].name = d[i].name) =>
               LET nodes == {k \in 1..Len(flat) : flat[k].rawName = d[i].name}
                   last == d[LastOfName(d, i)]
               IN /\ Cardinality(nodes) = 1
                  /\ \A k \in nodes :
                         /\ flat[k].message = last.message
                         /\ flat[k].severity_level = last.level
                         /\ flat[k].hardware_id = last.hardware_id

\* the non-empty segments of a name
Segments(name) == SelectSeq(Split(name, "/"), LAMBDA part : part # <<>>)

\* path a is a proper prefix of path b
IsPathPrefix(a, b) == Len(a) < Len(b) /\ SubSeq(b, 1, Len(a)) = a

\* record i of diagnostics has no other record below its path
HasNoChildRecord(diagnostics, i) ==
    \A j \in 1..Len(diagnostics) :
        ~IsPathPrefix(Segments(diagnostics[i].name), Segments(diagnostics[j].name))

\* the position of the last record of diagnostics that has the path of record i
LastOfPath(diagnostics, i) ==
    CHOOSE j \in 1..Len(diagnostics) :
        /\ Segments(diagnostics[j].name) = Segments(diagnostics[i].name)
        /\ \A k \in (j + 1)..Len(diagnostics) :
               Segments(diagnostics[k].name) # Segments(diagnostics[i].name)

\* C18 as stated: collectLeafNodes of the built forest has exactly one entry for
\* each record that has no record below its path, and every entry it has is the
\* entry of such a record, carrying that record's data (none is synthetic).
LeafPerRecord ==
    LET d == treeCall.diagnostics
        leaves == collectLeafNodes(treeCall.root)
    IN /\ \A i \in 1..Len(d) :
              HasNoChildRecord(d, i) =>
                  Cardinality({k \in 1..Len(leaves) :
                      Segments(leaves[k].rawName) = Segments(d[i].name)}) = 1
       /\ \A k \in 1..Len(leaves) :
              \E i \in 1..Len(d) :
                  /\ HasNoChildRecord(d, i)
                  /\ Segments(d[i].name) = Segments(leaves[k].rawName)
                  /\ leaves[k].message = d[LastOfPath(d, i)].message
                  /\ leaves[k].severity_level = d[LastOfPath(d, i)].level

\* the severity_level of every entry of a forest, at every depth
Severities(entries) ==
    {AllNodes(entries)[k].severity_level : k \in 1..Len(AllNodes(entries))}

SetMax(S) == CHOOSE m \in S : \A x \in S : x <= m

\* the forest with the siblings of every level in the opposite order
RECURSIVE ReverseSiblings(_)
ReverseSiblings(entries) ==
    IF entries = <<>> THEN <<>>
    ELSE Append(ReverseSiblings(Tail(entries)),
                [Head(entries) EXCEPT !.children = ReverseSiblings(@)])

\* C19 as stated: the level is the maximum severity_level over all entries of
\* the forest (-1 of synthetic entries included), 0 for the empty forest, and
\* the same for every order of the siblings.
LevelIsMaxSeverity ==
    ev.h = "build" =>
        /\ treeCall.overallLevel =
               IF treeCall.root = <<>> THEN 0 ELSE SetMax(Severities(treeCall.root))
        /\ calculateOverallLevel(ReverseSiblings(treeCall.root)) = treeCall.overallLevel

\* C19 amended: the level is the maximum of 0 and the severity_level of all
\* entries, so it is 0 for the empty forest and for a forest whose entries all
\* have -1; it is the same for every order of the siblings.
LevelIsMaxSeverityOrZero ==
    ev.h = "build" =>
        /\ treeCall.overallLevel = SetMax(Severities(treeCall.root) \cup {0})
        /\ calculateOverallLevel(ReverseSiblings(treeCall.root)) = treeCall.overallLevel

UnsetForestLevelZero ==
    /\ ev.h = "build"
    /\ Len(treeCall.diagnostics) = 2
    /\ Len(treeCall.root) = 2
    /\ Severities(treeCall.root) = {-1}
    /\ treeCall.overallLevel = 0

\* C20 as stated: no two nodes of a built forest, at any depth, have the same
\* rawName.
RawNameUnique ==
    LET flat == AllNodes(treeCall.root)
    IN \A k1, k2 \in 1..Len(flat) : k1 # k2 => flat[k1].rawName # flat[k2].rawName

-----------------------------------------------------------------------------
\* C21: a click on a history step shows that step's snapshot and sets pause,
\* and while pause stays set no handler other than another step click
\* changes the displayed snapshot, whatever messages arrive.
StepPinsDisplay ==
    [][/\ ev'.h = "step" =>
            /\ isPaused'
            /\ Len(diagHistory) + negIndex' + 1 \in 1..Len(diagHistory)
            /\ diagStatusDisplay' = diagHistory[Len(diagHistory) + negIndex' + 1]
       /\ (isPaused /\ isPaused' /\ ev'.h # "step") =>
            diagStatusDisplay' = diagStatusDisplay]_vars

\* a valid message was handled while the display was pinned to the older of
\* two stored snapshots
PinnedOlderStepOnMessage ==
    /\ ev.h = "message" /\ ev.arg = "valid"
    /\ isPaused
    /\ Len(diagHistory) = 2
    /\ negIndex = -2
    /\ diagStatusDisplay = diagHistory[1]
    /\ diagStatusDisplay # diagHistory[2]

\* C22: whenever pause is not set, the displayed snapshot is the newest element
\* of the history buffer, and null when the buffer is empty; the highlighted
\* step is then the newest one.  This holds after appends, evictions and clears.
DisplayTracksNewest ==
    ~isPaused =>
        /\ negIndex = -1
        /\ diagStatusDisplay =
               (IF diagHistory = <<>> THEN Null ELSE diagHistory[Len(diagHistory)])

\* an update evicted the oldest entry and the display shows the snapshot it stored
NewestShownAfterEviction ==
    /\ ~isPaused
    /\ ev.h = "update" /\ ev.arg = "valid"
    /\ stored > HISTORY_SIZE
    /\ Len(diagHistory) = HISTORY_SIZE
    /\ diagStatusDisplay = diagHistory[HISTORY_SIZE]
    /\ diagStatusDisplay.timestamp = now
    /\ diagStatusDisplay # diagHistory[1]

\* C23 as stated: un-pausing shows the newest snapshot of the buffer again and
\* the snapshots recorded before the pause are still in the buffer after it.
ResumeKeepsRecorded ==
    [][ev'.h = "resume" =>
          /\ diagHistory' = diagHistory
          /\ diagStatusDisplay' = EffectDisplay(diagHistory, FALSE, diagStatusDisplay)]_vars

\* C23: the Resume button clears pause and empties the buffer, so the display
\* is null until the next snapshot arrives; while pause is set the buffer gains
\* no snapshot, and the buffer gains a snapshot only from a message handled
\* while pause is not set, so no snapshot that arrived while paused is ever
\* in the buffer afterwards.
ResumeStartsEmpty ==
    [][/\ ev'.h = "resume" =>
            /\ ~isPaused' /\ ~isPausedRef'
            /\ diagHistory' = <<>>
            /\ diagStatusDisplay' = Null
            /\ negIndex' = -1
       /\ isPaused =>
            \A i \in 1..Len(diagHistory') :
                \E j \in 1..Len(diagHistory) : diagHistory'[i] = diagHistory[j]
       /\ (\E i \in 1..Len(diagHistory') :
               \A j \in 1..Len(diagHistory) : diagHistory'[i] # diagHistory[j]) =>
            /\ ~isPaused /\ ~isPaused'
            /\ ev'.h = "message" /\ ev'.arg = "valid"
            /\ diagStatusDisplay' = diagHistory'[Len(diagHistory')]]_vars

\* Resume emptied a buffer that held snapshots recorded before the pause,
\* after MaxMsgs snapshots had been stored
ResumedFromPinnedStep ==
    /\ ev.h = "resume" /\ ev.arg = "cleared"
    /\ ~isPaused
    /\ now = MaxMsgs
    /\ diagHistory = <<>>
    /\ diagStatusDisplay = Null

\* C25: after unsubscribe() no callback passed to subscribe before it is invoked
\* for a later message, also when the registration started by subscribe had not
\* completed; after unsubscribe(cb) the same holds of cb, and the subscriptions
\* of the other callbacks deliver as before.
UnsubscribeCancels ==
    [][/\ ev'.h = "deliver" => topic'.invoked \cap topic.cancelled = {}
       /\ (ev'.h = "unsubscribe" /\ ev'.arg # NoCallback) =>
            \A n \in DOMAIN topic.created :
                topic.created[n].callback # ev'.arg => topic'.created[n] = topic.created[n]]_vars

\* C26: once a change of namespace or url has stopped a session and started its
\* successor, the close event of a transport of the stopped session leaves the
\* history buffer and the pending timers as they are, and leaves the connected
\* indicator set while the successor's transport is open.
StoppedSessionIsSilent ==
    [][\A i \in DOMAIN sockets :
          (/\ ev'.h = "close"
           /\ sockets[i].readyState # "closed"
           /\ sockets'[i].readyState = "closed"
           /\ ~sessions[sockets[i].sess].retryConnection
           /\ ActiveSession # 0) =>
              /\ diagHistory' = diagHistory
              /\ timers' = timers
              /\ (/\ bridgeConnected
                  /\ sessions[ActiveSession].rosImpl # 0
                  /\ sockets[sessions[ActiveSession].rosImpl].readyState = "open") =>
                     bridgeConnected']_vars

\* C27: after every connection event the history buffer is empty (so no
\* snapshot recorded before it is in the buffer), connected=true has been
\* reported, and the transport that connected carries exactly one subscription
\* callback, for the topic "<namespace>/diagnostics_agg" of the active
\* namespace with type diagnostic_msgs/DiagnosticArray.
ConnectionSubscribesOnce ==
    [][ev'.h = "connection" =>
          /\ diagHistory' = <<>>
          /\ stored' = 0
          /\ bridgeConnected'
          /\ \E i \in DOMAIN sockets :
                /\ sockets[i].readyState = "connecting"
                /\ sockets'[i].readyState = "open"
                /\ sockets[i].sess = ActiveSession
                /\ sockets'[i].subscribed
                /\ sockets'[i].callbacks =
                       <<[name |-> <<props.namespace, "/diagnostics_agg">>,
                          messageType |-> "diagnostic_msgs/DiagnosticArray"]>>]_vars

\* the second session connected after a snapshot had been recorded in the first
SuccessorConnected ==
    /\ ev.h = "connection"
    /\ now >= 1
    /\ Len(sessions) = 2
    /\ props.namespace = "/b"
    /\ diagHistory = <<>>
    /\ bridgeConnected
    /\ \E i \in DOMAIN sockets :
          /\ sockets[i].sess = 2
          /\ sockets[i].readyState = "open"
          /\ Len(sockets[i].callbacks) = 1

OnlySnapshotsRestartStale ==
    [][(ev'.h = "message" /\ ev'.arg = "notArray") =>
          timers' = timers /\ staleTimeoutId' = staleTimeoutId]_vars

\* C30: staleness is measured against messages.  Every message the callback
\* handles, whatever it carries, cancels the pending stale-data timer and arms
\* one, so that afterwards exactly one stale-data timer is pending, the one
\* staleTimeoutId names; a non-array message changes nothing else.  The
\* history is cleared for staleness only when that timer fires.
EveryMessageRestartsStale ==
    [][/\ ev'.h = "message" =>
            LET stale == {t \in timers' : t.kind = "stale"}
            IN /\ Cardinality(stale) = 1
               /\ \A t \in stale : t.id = staleTimeoutId' /\ t.sess = ActiveSession
               /\ {t \in timers' : t.kind = "retry"} = {t \in timers : t.kind = "retry"}
               /\ ev'.arg = "notArray" =>
                     UNCHANGED <<histVars, bridgeConnected, sockets, sessions>>
       /\ ev'.h = "stale" =>
            /\ \E t \in timers : t.kind = "stale" /\ timers' = timers \ {t}
            /\ diagHistory' = <<>>
            /\ staleTimeoutId' = 0
            /\ UNCHANGED <<bridgeConnected, sockets, sessions>>]_vars

\* the stale-data timer fired after a snapshot, then a non-array message
\* arrived: a stale-data timer is pending again
NotArrayArmedStale ==
    /\ ev.h = "message" /\ ev.arg = "notArray"
    /\ ev.afterStale
    /\ now >= 1
    /\ diagHistory = <<>>
    /\ staleTimeoutId # 0
    /\ \E t \in timers : t.kind = "stale" /\ t.id = staleTimeoutId

SegmentName(segs, k) ==
    LET pieces == Split(segs[k], ":")
    IN IF k = Len(segs) /\ Len(pieces) >= 2 /\ pieces[2] # <<>>
       THEN pieces[2] ELSE pieces[1]

\* the nodes reached from entries by following the segments k.. of segs
RECURSIVE NodesAt(_, _, _)
NodesAt(entries, segs, k) ==
    LET here == {j \in 1..Len(entries) : entries[j].name = SegmentName(segs, k)}
    IN IF k = Len(segs) THEN {entries[j] : j \in here}
       ELSE UNION {NodesAt(entries[j].children, segs, k + 1) : j \in here}

\* C31 as stated: for every record whose name has a non-empty segment, the
\* node reached by following its non-empty segments carries the message and
\* severity_level of the last record of that path, whether the name has
\* leading, trailing or duplicate slashes or none.
SegmentsPopulateNode ==
    LET d == treeCall.diagnostics
    IN \A i \in 1..Len(d) :
           Segments(d[i].name) # <<>> =>
               \E node \in NodesAt(treeCall.root, Segments(d[i].name), 1) :
                   /\ node.message = d[LastOfPath(d, i)].message
                   /\ node.severity_level = d[LastOfPath(d, i)].level

\* every list of siblings of a forest: the top level and each children list
RECURSIVE SiblingLists(_)
SiblingLists(entries) ==
    {entries} \cup UNION {SiblingLists(entries[j].children) : j \in 1..Len(entries)}

\* C32 as stated: records are grouped by the left-of-colon form of their
\* segments, so no two siblings of the built forest have the same path, also
\* when a shared segment has the form base:suffix.
SiblingPathsDistinct ==
    \A level \in SiblingLists(treeCall.root) :
        \A j1, j2 \in 1..Len(level) : j1 # j2 => level[j1].path # level[j2].path

\* the first k segments of segs, each without its :suffix, joined by '/'
ChainPath(segs, k) == Join([m \in 1..k |-> Split(segs[m], ":")[1]], "/")

\* every entry of entries, which lie at the given depth of the forest built
\* from diagnostics, and every entry below them, has the chain of its depth
\* as path
RECURSIVE PathsAreChains(_, _, _)
PathsAreChains(entries, depth, diagnostics) ==
    \A j \in 1..Len(entries) :
        /\ \E i \in 1..Len(diagnostics) :
               LET segs == Segments(diagnostics[i].name)
               IN /\ Len(segs) >= depth
                  /\ entries[j].name \in SeqToSet(Split(segs[depth], ":"))
                  /\ entries[j].path = ChainPath(segs, depth)
        /\ Len(Split(entries[j].path, "/")) = depth
        /\ PathsAreChains(entries[j].children, depth + 1, diagnostics)

\* C33 as stated: the path of every node is the '/'-joined chain of the
\* segments from its top-level ancestor down to the node, each without its
\* :suffix, so the path of a node at depth d has exactly d segments, also
\* below a segment that contains ':' and for a name that starts with '/'.
PathIsSegmentChain ==
    PathsAreChains(treeCall.root, 1, treeCall.diagnostics)

\* C34: the error table lists exactly the entries of the forest without
\* children and with severity_level >= 2, the warning table exactly those
\* without children and with severity_level = 1, each in depth-first order;
\* no entry is in both tables and no entry with children is in either.
TablesListLeavesBySeverity ==
    ev.h = "build" =>
        LET flat == AllNodes(treeCall.root)
            errors == filteredDiagnostics(treeCall.root, "error")
            warnings == filteredDiagnostics(treeCall.root, "warning")
        IN /\ errors = SelectSeq(flat, LAMBDA e : e.children = <<>> /\ e.severity_level >= 2)
           /\ warnings = SelectSeq(flat, LAMBDA e : e.children = <<>> /\ e.severity_level = 1)
           /\ SeqToSet(errors) \cap SeqToSet(warnings) = {}
           /\ \A e \in SeqToSet(errors) \cup SeqToSet(warnings) : e.children = <<>>

\* a (ERROR) with the child a/b (WARN): the warning table has the row b, the
\* error table has no row although a has severity 2
ErrorParentWarningLeaf ==
    /\ ev.h = "build"
    /\ Len(treeCall.root) = 1
    /\ treeCall.root[1].severity_level = 2
    /\ Len(treeCall.root[1].children) = 1
    /\ filteredDiagnostics(treeCall.root, "error") = <<>>
    /\ filteredDiagnostics(treeCall.root, "warning") = treeCall.root[1].children
    /\ treeCall.root[1].children[1].severity_level = 1

\* C35 as stated: when the selected identifier changes to a node of the
\* displayed forest, afterwards the rawName of every ancestor of that node is
\* expanded, and the auto-expansion removes no rawName that was expanded (after
\* a row click: none but what the click itself toggled).
SelectingExpandsAncestors ==
    [][(/\ selectedRawName' # selectedRawName
        /\ selectedRawName' # <<>>
        /\ findEntryByRawName(DisplayedDiagnostics(diagStatusDisplay'),
                              selectedRawName') # Null) =>
            LET path == findPathToRawName(DisplayedDiagnostics(diagStatusDisplay'),
                                          selectedRawName', <<>>)
            IN /\ {path[k] : k \in 1..(Len(path) - 1)} \subseteq expandedRows'
               /\ ev'.h = "tableClick" => expandedRows \subseteq expandedRows'
               /\ ev'.h = "rowClick" =>
                      toggleRowExpansion(expandedRows, selectedRawName')
                          \subseteq expandedRows']_vars

\* C36 as stated: at most one stale-data timer is pending; a stale-data timer
\* is pending only between a received message and the next close event or
\* stop, never while connected=false is the last reported status; a retry
\* timer is pending only between a close event and the next connect call,
\* never while connected=true is the last reported status.
TimerDiscipline ==
    /\ \A s \in DOMAIN sessions : Cardinality(StaleTimers(s)) <= 1
    /\ (\E t \in timers : t.kind = "stale") => bridgeConnected
    /\ (\E t \in timers : t.kind = "retry") => ~bridgeConnected

\* C37 as stated: while paused with a non-empty buffer the highlighted step
\* diagHistory.length + negIndex is an index of the buffer and the snapshot
\* there is the displayed one; a displayed snapshot that is not null is always
\* an element of the buffer.
DisplayedIsInBuffer ==
    /\ (isPaused /\ Len(diagHistory) > 0) =>
           /\ (Len(diagHistory) + negIndex) \in 0..(Len(diagHistory) - 1)
           /\ diagHistory[Len(diagHistory) + negIndex + 1] = diagStatusDisplay
    /\ diagStatusDisplay # Null => diagStatusDisplay \in SeqToSet(diagHistory)

\* C37 amended: while paused with a non-empty buffer the highlighted step is
\* an index of the buffer and the snapshot there is the displayed one; a
\* displayed snapshot that is not null is an element of the buffer unless the
\* display is paused and the buffer is empty (the buffer was cleared under a
\* pinned snapshot, which stays displayed).
DisplayedIsInBufferUnlessCleared ==
    /\ (isPaused /\ Len(diagHistory) > 0) =>
           /\ (Len(diagHistory) + negIndex) \in 0..(Len(diagHistory) - 1)
           /\ diagHistory[Len(diagHistory) + negIndex + 1] = diagStatusDisplay
    /\ (diagStatusDisplay # Null /\ ~(isPaused /\ diagHistory = <<>>)) =>
           diagStatusDisplay \in SeqToSet(diagHistory)

\* the older of two stored snapshots was clicked: it is highlighted and shown
HighlightedOlderStep ==
    /\ ev.h = "step"
    /\ isPaused
    /\ Len(diagHistory) = 2
    /\ negIndex = -2
    /\ diagStatusDisplay = diagHistory[1]
    /\ diagStatusDisplay # diagHistory[2]

\* C38 as stated: whenever the level of a snapshot is >= 2 the error table
\* built from its forest has at least one row, and whenever the level is
\* exactly 1 the warning table has at least one row.
LevelHasTableRow ==
    ev.h = "build" =>
        /\ treeCall.overallLevel >= 2 =>
               Len(filteredDiagnostics(treeCall.root, "error")) >= 1
        /\ treeCall.overallLevel = 1 =>
               Len(filteredDiagnostics(treeCall.root, "warning")) >= 1

\* C38 amended: the level is >= 2 exactly when some entry of the forest, at
\* any depth, has severity_level >= 2, and exactly 1 when none has but some
\* entry has severity_level 1; the error (warning) table has a row exactly
\* when such an entry has no children.  So a row in the error table implies a
\* level >= 2 and a row in the warning table a level >= 1, and the level has
\* its row whenever no entry with children has a severity_level above 0.
LevelCountsParentsTablesLeaves ==
    ev.h = "build" =>
        LET flat == SeqToSet(AllNodes(treeCall.root))
            leaves == {e \in flat : e.children = <<>>}
            errors == filteredDiagnostics(treeCall.root, "error")
            warnings == filteredDiagnostics(treeCall.root, "warning")
        IN /\ treeCall.overallLevel >= 2 <=> \E e \in flat : e.severity_level >= 2
           /\ treeCall.overallLevel = 1 <=>
                  /\ \A e \in flat : e.severity_level < 2
                  /\ \E e \in flat : e.severity_level = 1
           /\ Len(errors) >= 1 <=> \E e \in leaves : e.severity_level >= 2
           /\ Len(warnings) >= 1 <=> \E e \in leaves : e.severity_level = 1
           /\ Len(errors) >= 1 => treeCall.overallLevel >= 2
           /\ Len(warnings) >= 1 => treeCall.overallLevel >= 1
           /\ (\A e \in flat \ leaves : e.severity_level <= 0) =>
                  /\ treeCall.overallLevel >= 2 => Len(errors) >= 1
                  /\ treeCall.overallLevel = 1 => Len(warnings) >= 1

\* a (ERROR) with the child a/b (OK): the level is 2 and both tables are empty
ErrorLevelNoErrorRow ==
    /\ ev.h = "build"
    /\ treeCall.overallLevel = 2
    /\ Len(treeCall.root) = 1
    /\ treeCall.root[1].severity_level = 2
    /\ Len(treeCall.root[1].children) = 1
    /\ treeCall.root[1].children[1].severity_level = 0
    /\ filteredDiagnostics(treeCall.root, "error") = <<>>
    /\ filteredDiagnostics(treeCall.root, "warning") = <<>>

\* the result is empty, or starts with exactly one '/', has only characters of
\* [a-zA-Z0-9_/], no "//" and no "__", does not end with '/', and has no
\* digit right after the leading '/'
WellFormedNamespace(r) ==
    \/ r = <<>>
    \/ /\ r[1] = "/"
       /\ Len(r) >= 2 => r[2] # "/"
       /\ \A k \in 1..Len(r) : r[k] \in Letters \cup Digits \cup {"_", "/"}
       /\ \A k \in 1..(Len(r) - 1) :
              ~(r[k] = "/" /\ r[k + 1] = "/") /\ ~(r[k] = "_" /\ r[k + 1] = "_")
       /\ r[Len(r)] # "/"
       /\ Len(r) >= 2 => r[2] \notin Digits

\* C39 as stated: sanitizeNamespace is idempotent and its result is well
\* formed, for every input string.
SanitizeIdempotentWellFormed ==
    ev.h = "sanitize" =>
        /\ nsCall.again = nsCall.sanitizedNamespace
        /\ WellFormedNamespace(nsCall.sanitizedNamespace)

-----------------------------------------------------------------------------
====
